---- MODULE Spec2Model ----
(***************************************************************************)
(* Model of src/communication.cpp: the HTTPS REST server with the shared   *)
(* in-memory user store (Session::users_), its three handlers, the router  *)
(* (Session::route_request), the per-connection callback chain and the     *)
(* accept loop (RestApiServer::accept_connection).                         *)
(*                                                                         *)
(* A std::string is a sequence of one-character strings, so that           *)
(* std::to_string, std::stoi, starts_with, substr and json::serialize are  *)
(* computed character by character as the code computes them.              *)
(***************************************************************************)
EXTENDS Integers, Sequences, FiniteSets, TLC

(***************************************************************************)
(* Bounds of the model.                                                    *)
(***************************************************************************)
\* number of connections the acceptor accepts, each of which gets one Session
MaxSessions == 3

(***************************************************************************)
(* String literals of the source.                                          *)
(***************************************************************************)
s_GET == <<"G", "E", "T">>
s_POST == <<"P", "O", "S", "T">>
s_DELETE == <<"D", "E", "L", "E", "T", "E">>
s_api_users == <<"/", "a", "p", "i", "/", "u", "s", "e", "r", "s">>
s_api_users_slash == <<"/", "a", "p", "i", "/", "u", "s", "e", "r", "s", "/">>
s_id == <<"i", "d">>
s_name == <<"n", "a", "m", "e">>
s_Alice == <<"A", "l", "i", "c", "e">>
s_Bob == <<"B", "o", "b">>
s_users == <<"u", "s", "e", "r", "s">>
s_user == <<"u", "s", "e", "r">>
s_message == <<"m", "e", "s", "s", "a", "g", "e">>
s_error == <<"e", "r", "r", "o", "r">>
s_User_created == <<"U", "s", "e", "r", " ", "c", "r", "e", "a", "t", "e", "d">>
s_User_not_found == <<"U", "s", "e", "r", " ", "n", "o", "t", " ", "f", "o", "u", "n", "d">>
s_Endpoint_not_found == <<"E", "n", "d", "p", "o", "i", "n", "t", " ", "n", "o", "t", " ", "f", "o", "u", "n", "d">>
s_application_json == <<"a", "p", "p", "l", "i", "c", "a", "t", "i", "o", "n", "/", "j", "s", "o", "n">>

\* http::status values used by route_request
status_ok == 200
status_created == 201
status_bad_request == 400
status_not_found == 404

\* target.substr(11): the length of "/api/users/"
PrefixLen == 11

(***************************************************************************)
(* std::string operations.                                                 *)
(***************************************************************************)
Digits == <<"0", "1", "2", "3", "4", "5", "6", "7", "8", "9">>

DigitVal(c) == (CHOOSE d \in 1..10 : Digits[d] = c) - 1

\* std::to_string of an unsigned value: its decimal digits, most significant first
RECURSIVE to_string(_)
to_string(n) ==
    IF n < 10 THEN <<Digits[n + 1]>>
    ELSE to_string(n \div 10) \o <<Digits[(n % 10) + 1]>>

\* std::stoi on a string of decimal digits
RECURSIVE stoi(_)
stoi(s) ==
    IF Len(s) = 0 THEN 0
    ELSE 10 * stoi(SubSeq(s, 1, Len(s) - 1)) + DigitVal(s[Len(s)])

\* a prefix test that leaves out the last character of the prefix
starts_with_loose(s, prefix) ==
    /\ Len(s) >= Len(prefix) - 1
    /\ SubSeq(s, 1, Len(prefix) - 1) = SubSeq(prefix, 1, Len(prefix) - 1)

\* std::string::starts_with
starts_with(s, prefix) ==
    /\ Len(s) >= Len(prefix)
    /\ SubSeq(s, 1, Len(prefix)) = prefix

\* std::string::substr(pos)
substr(s, pos) == SubSeq(s, pos + 1, Len(s))

(***************************************************************************)
(* boost::json values.  A value is a record [type, v]; an object is the    *)
(* sequence of its <<key, value>> pairs in insertion order, with no key    *)
(* twice; an array is the sequence of its elements.                        *)
(***************************************************************************)
JInt(n) == [type |-> "int64", v |-> n]
JStr(s) == [type |-> "string", v |-> s]
JArr(a) == [type |-> "array", v |-> a]
JObj(o) == [type |-> "object", v |-> o]
JNull == [type |-> "null", v |-> <<>>]

\* position of key k in object o, 0 when absent
ObjFind(o, k) ==
    IF \E i \in 1..Len(o) : o[i][1] = k
    THEN CHOOSE i \in 1..Len(o) : o[i][1] = k
    ELSE 0

\* json::object::contains
ObjContains(o, k) == ObjFind(o, k) # 0

\* json::object::operator[] on a key that is present
ObjAt(o, k) == o[ObjFind(o, k)][2]

\* obj[k] = val: replaces the value of an existing key in place, appends a new key
ObjSet(o, k, val) ==
    IF ObjContains(o, k)
    THEN [o EXCEPT ![ObjFind(o, k)] = <<k, val>>]
    ELSE Append(o, <<k, val>>)

ObjKeys(o) == {o[i][1] : i \in 1..Len(o)}

\* a list of strings joined with commas
RECURSIVE JoinComma(_)
JoinComma(parts) ==
    IF Len(parts) = 0 THEN <<>>
    ELSE IF Len(parts) = 1 THEN parts[1]
    ELSE parts[1] \o <<",">> \o JoinComma(Tail(parts))

\* json::serialize: the compact JSON text of a value (the strings of the
\* model hold no character that needs escaping)
RECURSIVE serialize(_)
serialize(jv) ==
    CASE jv.type = "null" -> <<"n", "u", "l", "l">>
      [] jv.type = "int64" -> to_string(jv.v)
      [] jv.type = "string" -> <<"\"">> \o jv.v \o <<"\"">>
      [] jv.type = "array" ->
            <<"[">> \o JoinComma([i \in 1..Len(jv.v) |-> serialize(jv.v[i])]) \o <<"]">>
      [] jv.type = "object" ->
            <<"{">> \o JoinComma([i \in 1..Len(jv.v) |->
                        <<"\"">> \o jv.v[i][1] \o <<"\"">> \o <<":">> \o serialize(jv.v[i][2])])
                  \o <<"}">>

(***************************************************************************)
(* Request bodies.  A body is either text that is not JSON (wf = FALSE) or *)
(* the text of a JSON document, given by its members as written (doc), in  *)
(* which an object may name a key twice.                                   *)
(***************************************************************************)
s_Carol == <<"C", "a", "r", "o", "l">>
s_Dave == <<"D", "a", "v", "e">>
s_syntax_error == <<"s", "y", "n", "t", "a", "x", " ", "e", "r", "r", "o", "r">>
s_not_an_object == <<"n", "o", "t", " ", "a", "n", " ", "o", "b", "j", "e", "c", "t">>

Body(wf, doc) == [wf |-> wf, doc |-> doc]

\* no body (GET, DELETE)
body_empty == Body(FALSE, JArr(<<>>))
\* not json
body_not_json == Body(FALSE, JStr(<<"n", "o", "t", " ", "j", "s", "o", "n">>))
\* {"name":"Carol"}
body_carol == Body(TRUE, JObj(<< <<s_name, JStr(s_Carol)>> >>))
\* {"id":99,"name":"Bob","name":"Dave"}
body_dave ==
    Body(TRUE, JObj(<< <<s_id, JInt(99)>>, <<s_name, JStr(s_Bob)>>, <<s_name, JStr(s_Dave)>> >>))
\* [1]
body_array == Body(TRUE, JArr(<<JInt(1)>>))

\* the members of a parsed object: a key written twice keeps the position of
\* its first occurrence and the value of its last
RECURSIVE ParseMembers(_)
ParseMembers(members) ==
    IF Len(members) = 0 THEN <<>>
    ELSE LET init == ParseMembers(SubSeq(members, 1, Len(members) - 1))
             m == members[Len(members)]
         IN ObjSet(init, m[1], m[2])

\* json::parse(body): throws on text that is not JSON
parse(body) ==
    IF ~body.wf
    THEN [threw |-> TRUE, what |-> s_syntax_error, jv |-> JArr(<<>>)]
    ELSE [threw |-> FALSE, what |-> <<>>,
          jv |-> IF body.doc.type = "object"
                 THEN JObj(ParseMembers(body.doc.v))
                 ELSE body.doc]

(***************************************************************************)
(* The store and the handlers.  A handler that may throw yields the        *)
(* exception (threw, what) or the returned object (ret), and the store     *)
(* after the call (users).                                                 *)
(***************************************************************************)
\* static inline json::object users_
users_init ==
    << <<to_string(1), JObj(<< <<s_id, JInt(1)>>, <<s_name, JStr(s_Alice)>> >>)>>,
       <<to_string(2), JObj(<< <<s_id, JInt(2)>>, <<s_name, JStr(s_Bob)>> >>)>> >>

Returned(obj, users) == [threw |-> FALSE, what |-> <<>>, ret |-> obj, users |-> users]

Thrown(what, users) == [threw |-> TRUE, what |-> what, ret |-> <<>>, users |-> users]

\* Session::handle_get_users
handle_get_users(users) ==
    << <<s_users, JArr([i \in 1..Len(users) |-> users[i][2]])>> >>

\* users_.at(id) in place of the contains test: throws on an absent id
handle_get_user_at(users, id) ==
    IF ObjContains(users, id)
    THEN Returned(ObjAt(users, id).v, users)
    ELSE Thrown(<<"o", "u", "t", " ", "o", "f", " ", "r", "a", "n", "g", "e">>, users)

\* users_[id] without the contains test: inserts null under an absent id
handle_get_user_subscript(users, id) ==
    IF ObjContains(users, id)
    THEN IF ObjAt(users, id).type = "object"
         THEN Returned(ObjAt(users, id).v, users)
         ELSE Thrown(s_not_an_object, users)
    ELSE Thrown(s_not_an_object, ObjSet(users, id, JNull))

\* Session::handle_get_user; as_object() throws on a stored value that is
\* not an object
handle_get_user(users, id) ==
    IF ObjContains(users, id)
    THEN IF ObjAt(users, id).type = "object"
         THEN Returned(ObjAt(users, id).v, users)
         ELSE Thrown(s_not_an_object, users)
    ELSE Returned(<< <<s_error, JStr(s_User_not_found)>> >>, users)

\* the size of the store taken as the new id
new_id_size(users) == to_string(Len(users))

\* the id computed from the size the store had when it was constructed
new_id_snapshot(users) == to_string(Len(users_init) + 1)

\* std::string new_id = std::to_string(users_.size() + 1)
new_id_of(users) == to_string(Len(users) + 1)

\* user.emplace("id", ...): an id already in the body is kept
set_id_emplace(user, new_id) ==
    IF ObjContains(user, s_id) THEN user ELSE Append(user, <<s_id, JInt(stoi(new_id))>>)

\* user["id"] = new_id: the id stored as a string
set_id_string(user, new_id) == ObjSet(user, s_id, JStr(new_id))

\* user["id"] = std::stoi(new_id)
set_id(user, new_id) == ObjSet(user, s_id, JInt(stoi(new_id)))

\* the insertion made on a copy of the store
store_user_on_copy(users, new_id, user) == users

\* the user stored under the size of the store
store_user_at_size(users, new_id, user) == ObjSet(users, to_string(Len(users)), JObj(user))

\* users_[new_id] = user
store_user(users, new_id, user) == ObjSet(users, new_id, JObj(user))

\* the response object of a successful create
created_response(user) ==
    << <<s_message, JStr(s_User_created)>>, <<s_user, JObj(user)>> >>

\* a body that is not an object taken as the empty object
handle_create_user_lenient(users, body) ==
    LET p == parse(body) IN
    IF p.threw
    THEN Thrown(p.what, users)
    ELSE LET new_id == new_id_of(users)
             user == set_id(IF p.jv.type = "object" THEN p.jv.v ELSE <<>>, new_id)
         IN Returned(created_response(user), store_user(users, new_id, user))

\* the slot users_[new_id] taken before the body is parsed
handle_create_user_insert_first(users, body) ==
    LET p == parse(body)
        new_id == new_id_of(users)
    IN
    IF p.threw
    THEN Thrown(p.what, ObjSet(users, new_id, JNull))
    ELSE IF p.jv.type # "object"
    THEN Thrown(s_not_an_object, ObjSet(users, new_id, JNull))
    ELSE LET user == set_id(p.jv.v, new_id)
         IN Returned(created_response(user), store_user(users, new_id, user))

\* Session::handle_create_user: json::parse throws on text that is not JSON,
\* as_object() on a value that is not an object
handle_create_user(users, body) ==
    LET p == parse(body) IN
    IF p.threw
    THEN Thrown(p.what, users)
    ELSE IF p.jv.type # "object"
    THEN Thrown(s_not_an_object, users)
    ELSE LET new_id == new_id_of(users)
             user == set_id(p.jv.v, new_id)
         IN Returned(created_response(user), store_user(users, new_id, user))

\* http::response<http::string_body> after prepare_payload, with the
\* json::object that was serialized into its body
Response(status, keep_alive, obj) ==
    [status |-> status, content_type |-> s_application_json,
     keep_alive |-> keep_alive, json |-> obj, body |-> serialize(JObj(obj))]

\* a catch block that answers with the bare message as text/plain
BadRequest_plain(req, what) ==
    [status |-> status_bad_request,
     content_type |-> <<"t", "e", "x", "t", "/", "p", "l", "a", "i", "n">>,
     keep_alive |-> req.keep_alive, json |-> <<>>, body |-> what]

\* the catch block of route_request
BadRequest(req, what) ==
    Response(status_bad_request, req.keep_alive, << <<s_error, JStr(what)>> >>)

\* target.starts_with("/api/users/")
is_user_target(target) == starts_with(target, s_api_users_slash)

\* the id taken one character too early
user_id_of_short(target) == substr(target, PrefixLen - 1)

\* std::string id = target.substr(11)
user_id_of(target) == substr(target, PrefixLen)

\* Session::route_request up to the call of write_response: the response
\* and the store after the call
route_request(users, req) ==
    IF req.method = s_GET /\ req.target = s_api_users
    THEN [res |-> Response(status_ok, req.keep_alive, handle_get_users(users)),
          users |-> users]
    ELSE IF req.method = s_GET /\ is_user_target(req.target)
    THEN LET g == handle_get_user(users, user_id_of(req.target)) IN
         [res |-> IF g.threw THEN BadRequest(req, g.what)
                  ELSE Response(status_ok, req.keep_alive, g.ret),
          users |-> g.users]
    ELSE IF req.method = s_POST /\ req.target = s_api_users
    THEN LET c == handle_create_user(users, req.body) IN
         [res |-> IF c.threw THEN BadRequest(req, c.what)
                  ELSE Response(status_created, req.keep_alive, c.ret),
          users |-> c.users]
    ELSE [res |-> Response(status_not_found, req.keep_alive,
                           << <<s_error, JStr(s_Endpoint_not_found)>> >>),
          users |-> users]

(***************************************************************************)
(* Requests a client may send.                                             *)
(***************************************************************************)
Request(method, target, keep_alive, body) ==
    [method |-> method, target |-> target, keep_alive |-> keep_alive, body |-> body]

\* suffixes asked for by GET /api/users/<suffix>
Suffixes == {<<>>, <<"1">>, <<"3">>}

PostBodies ==
    {body_not_json, body_array, body_carol, body_dave}

Requests ==
    {Request(s_GET, s_api_users, FALSE, body_empty)}
    \cup {Request(s_GET, s_api_users_slash \o sfx, TRUE, body_empty) : sfx \in Suffixes}
    \cup {Request(s_GET, s_api_users \o <<"X">>, TRUE, body_empty),
          Request(s_DELETE, s_api_users_slash \o <<"1">>, TRUE, body_empty),
          Request(s_POST, s_api_users_slash \o <<"1">>, TRUE, body_carol)}
    \cup {Request(s_POST, s_api_users, TRUE, b) : b \in PostBodies}

(***************************************************************************)
(* State.                                                                  *)
(***************************************************************************)
VARIABLES
    users_,     \* Session::users_, shared by all sessions
    pc,         \* per session: "None" before it is constructed, then the asynchronous
                \* operation it waits for, "Closed" when its chain has ended,
                \* "Aborted" when the process died while the chain was pending
    self_refs,  \* per session: number of pending completion handlers that hold a
                \* std::shared_ptr<Session> to it (the captured self)
    accepting,  \* number of pending async_accept operations of the acceptor
    last,       \* <<>> or <<the request routed last, its response, the store before it,
                \* whether it repeats a GET-by-id made since the last 201>>
    created,    \* number of responses with status 201 produced so far
    posted,     \* for every 201 response, in order: the id it carries and the body posted
    getSeen     \* per suffix: status and body of the first GET-by-id response
                \* since the last 201

vars == <<users_, pc, self_refs, accepting, last, created, posted, getSeen>>

Sessions == 1..MaxSessions

Init ==
    /\ users_ = users_init
    /\ pc = [s \in Sessions |-> "None"]
    /\ self_refs = [s \in Sessions |-> 0]
    /\ accepting = 1
    /\ last = <<>>
    /\ created = 0
    /\ posted = <<>>
    /\ getSeen = <<>>

\* an accept handler whose Session::start reads the request at once, without
\* the handshake
accept_handler_plain(ec) ==
    /\ accepting = 1
    /\ IF ~ec
       THEN /\ \E s \in Sessions : pc[s] = "None"
            /\ LET s == CHOOSE t \in Sessions :
                            /\ pc[t] = "None"
                            /\ \A u \in Sessions : pc[u] = "None" => t <= u
               IN /\ pc' = [pc EXCEPT ![s] = "Reading"]
                  /\ self_refs' = [self_refs EXCEPT ![s] = 1]
       ELSE /\ pc' = pc
            /\ self_refs' = self_refs
    /\ accepting' = accepting - 1 + 1
    /\ UNCHANGED <<users_, last, created, posted, getSeen>>

\* RestApiServer::accept_connection: the completion handler of async_accept.
\* On success a Session is constructed and started (Session::start calls
\* ssl_handshake, which starts async_handshake); in both cases accept is
\* re-armed.  Sessions are numbered in the order of their construction.
accept_handler(ec) ==
    /\ accepting = 1
    /\ IF ~ec
       THEN /\ \E s \in Sessions : pc[s] = "None"
            /\ LET s == CHOOSE t \in Sessions :
                            /\ pc[t] = "None"
                            /\ \A u \in Sessions : pc[u] = "None" => t <= u
               IN /\ pc' = [pc EXCEPT ![s] = "Handshaking"]
                  /\ self_refs' = [self_refs EXCEPT ![s] = 1]
       ELSE /\ pc' = pc
            /\ self_refs' = self_refs
    /\ accepting' = accepting - 1 + 1
    /\ UNCHANGED <<users_, last, created, posted, getSeen>>

\* a handshake handler that reads the request whatever ec is
handshake_handler_ignore_ec(s, ec) ==
    /\ pc[s] = "Handshaking"
    /\ pc' = [pc EXCEPT ![s] = "Reading"]
    /\ self_refs' = [self_refs EXCEPT ![s] = @ - 1 + 1]
    /\ UNCHANGED <<users_, accepting, last, created, posted, getSeen>>

\* Session::ssl_handshake: the completion handler of async_handshake, which
\* holds self; on success read_request starts async_read with a handler that
\* holds self again
handshake_handler(s, ec) ==
    /\ pc[s] = "Handshaking"
    /\ pc' = [pc EXCEPT ![s] = IF ~ec THEN "Reading" ELSE "Closed"]
    /\ self_refs' = [self_refs EXCEPT ![s] = IF ~ec THEN @ - 1 + 1 ELSE @ - 1]
    /\ UNCHANGED <<users_, accepting, last, created, posted, getSeen>>

\* Session::read_request: the completion handler of async_read, which on
\* success runs route_request and, through write_response, starts async_write
read_handler(s, ec, req) ==
    /\ pc[s] = "Reading"
    /\ IF ~ec
       THEN LET r == route_request(users_, req)
                byId == req.method = s_GET /\ req.target # s_api_users
                            /\ is_user_target(req.target)
                sfx == user_id_of(req.target)
            IN /\ users_' = r.users
               /\ last' = << [req |-> req, res |-> r.res, before |-> users_,
                               again |-> byId /\ sfx \in DOMAIN getSeen] >>
               /\ created' = IF r.res.status = status_created THEN created + 1 ELSE created
               /\ posted' = IF r.res.status = status_created
                            THEN Append(posted, [id |-> ObjAt(ObjAt(r.res.json, s_user).v, s_id),
                                                 body |-> req.body])
                            ELSE posted
               /\ getSeen' = IF r.res.status = status_created THEN <<>>
                             ELSE IF ~byId THEN getSeen
                             ELSE IF sfx \in DOMAIN getSeen THEN getSeen
                             ELSE (sfx :> [status |-> r.res.status, body |-> r.res.body])
                                  @@ getSeen
               /\ pc' = [pc EXCEPT ![s] = "Writing"]
               /\ self_refs' = [self_refs EXCEPT ![s] = @ - 1 + 1]
       ELSE /\ pc' = [pc EXCEPT ![s] = "Closed"]
            /\ self_refs' = [self_refs EXCEPT ![s] = @ - 1]
            /\ UNCHANGED <<users_, last, created, posted, getSeen>>
    /\ UNCHANGED accepting

\* a write handler that reads the next request of the connection after a
\* successful write
write_handler_keep_alive(s, ec) ==
    /\ pc[s] = "Writing"
    /\ pc' = [pc EXCEPT ![s] = IF ~ec THEN "Reading" ELSE "ShuttingDown"]
    /\ self_refs' = [self_refs EXCEPT ![s] = IF ~ec THEN @ ELSE @ - 1]
    /\ UNCHANGED <<users_, accepting, last, created, posted, getSeen>>

\* Session::write_response: the completion handler of async_write, which
\* holds self and sp and starts async_shutdown whatever ec is, with a handler
\* that captures nothing
write_handler(s, ec) ==
    /\ pc[s] = "Writing"
    /\ pc' = [pc EXCEPT ![s] = "ShuttingDown"]
    /\ self_refs' = [self_refs EXCEPT ![s] = @ - 1]
    /\ UNCHANGED <<users_, accepting, last, created, posted, getSeen>>

\* the completion handler of async_shutdown: an empty lambda
shutdown_handler(s, ec) ==
    /\ pc[s] = "ShuttingDown"
    /\ pc' = [pc EXCEPT ![s] = "Closed"]
    /\ self_refs' = self_refs
    /\ UNCHANGED <<users_, accepting, last, created, posted, getSeen>>

\* async_shutdown resumed on a Session that no handler keeps alive: its
\* stream_ was destroyed with the Session, the operation works on freed
\* memory, and besides completing as above it may end the process, with
\* every pending operation of every session and of the acceptor
shutdown_use_after_free(s) ==
    /\ pc[s] = "ShuttingDown"
    /\ self_refs[s] = 0
    /\ pc' = [t \in Sessions |-> IF pc[t] \in {"None", "Closed"} THEN pc[t] ELSE "Aborted"]
    /\ self_refs' = [t \in Sessions |-> 0]
    /\ accepting' = 0
    /\ UNCHANGED <<users_, last, created, posted, getSeen>>

Next ==
    \/ \E ec \in BOOLEAN : accept_handler(ec)
    \/ \E s \in Sessions, ec \in BOOLEAN : handshake_handler(s, ec)
    \/ \E s \in Sessions, ec \in BOOLEAN, req \in Requests : read_handler(s, ec, req)
    \/ \E s \in Sessions, ec \in BOOLEAN : write_handler(s, ec)
    \/ \E s \in Sessions, ec \in BOOLEAN : shutdown_handler(s, ec)
    \/ \E s \in Sessions : shutdown_use_after_free(s)

Spec == Init /\ [][Next]_vars

\* the operation pending on the stream of session s completes, with or
\* without an error, and ioc_.run() runs its completion handler
Completion(s) ==
    \/ \E ec \in BOOLEAN : handshake_handler(s, ec)
    \/ \E ec \in BOOLEAN, req \in Requests : read_handler(s, ec, req)
    \/ \E ec \in BOOLEAN : write_handler(s, ec)
    \/ \E ec \in BOOLEAN : shutdown_handler(s, ec)
    \/ shutdown_use_after_free(s)

\* the server under the assumption that every operation pending on a
\* session's stream eventually completes: RestApiServer::run stays in
\* ioc_.run(), which runs the handler of every completed operation
SpecFair == Spec /\ \A s \in Sessions : WF_vars(Completion(s))

TypeOK ==
    /\ Len(users_) <= Len(users_init) + MaxSessions
    /\ pc \in [Sessions -> {"None", "Handshaking", "Reading", "Writing", "ShuttingDown",
                            "Closed", "Aborted"}]
    /\ self_refs \in [Sessions -> {0, 1}]
    /\ accepting \in {0, 1}
    /\ Len(last) <= 1

(***************************************************************************)
(* Vocabulary of the properties.                                           *)
(***************************************************************************)
Routed == last # <<>>

\* the seed population S
SeedSize == Len(users_init)

\* the target is "/api/users/" followed by a suffix
HasUsersPrefix(target) ==
    /\ Len(target) >= Len(s_api_users_slash)
    /\ \A i \in 1..Len(s_api_users_slash) : target[i] = s_api_users_slash[i]

SuffixOf(target) == [i \in 1..(Len(target) - Len(s_api_users_slash)) |->
                        target[i + Len(s_api_users_slash)]]

IsList(req) == req.method = s_GET /\ req.target = s_api_users
IsGetById(req) == req.method = s_GET /\ HasUsersPrefix(req.target)
IsCreate(req) == req.method = s_POST /\ req.target = s_api_users

GetList == Request(s_GET, s_api_users, FALSE, body_empty)
GetById(k) == Request(s_GET, s_api_users_slash \o to_string(k), TRUE, body_empty)

\* the number of elements the list endpoint returns on store u
ListCount(u) == Len(ObjAt(route_request(u, GetList).res.json, s_users).v)

\* the members of an object other than id, in order
NonId(o) == SelectSeq(o, LAMBDA m : m[1] # s_id)

\* the JSON object a well-formed object body denotes
FieldsOf(body) == parse(body).jv.v

\* the user object carried by a 201 response
UserOf(res) == ObjAt(res.json, s_user).v

\* {"error":"User not found"}
text_user_not_found ==
    <<"{", "\"", "e", "r", "r", "o", "r", "\"", ":", "\"", "U", "s", "e", "r", " ",
      "n", "o", "t", " ", "f", "o", "u", "n", "d", "\"", "}">>

\* {"error":"Endpoint not found"}
text_endpoint_not_found ==
    <<"{", "\"", "e", "r", "r", "o", "r", "\"", ":", "\"", "E", "n", "d", "p", "o", "i",
      "n", "t", " ", "n", "o", "t", " ", "f", "o", "u", "n", "d", "\"", "}">>

(***************************************************************************)
(* C1  ID-allocation rule: the Nth POST /api/users answered 201 carries    *)
(* the integer id S + N, whatever other requests came in between; the      *)
(* seed store has S = 2 users, so the first successful create gets id 3.   *)
(***************************************************************************)
C1_IdAllocation ==
    /\ SeedSize = 2
    /\ Len(posted) = created
    /\ \A n \in 1..Len(posted) : posted[n].id = JInt(SeedSize + n)
    /\ Len(posted) >= 1 => posted[1].id = JInt(3)
    /\ (Routed /\ last[1].res.status = status_created)
          => ObjAt(UserOf(last[1].res), s_id) = JInt(SeedSize + created)

\* two creates were answered 201; the second one carries id 4
C1_Witness ==
    /\ created = 2
    /\ posted[2].id = JInt(4)
    /\ last[1].res.status = status_created

(***************************************************************************)
(* C2  Store monotonicity: after a POST answered 201 the list endpoint     *)
(* returns exactly one more element than it returned before that POST.     *)
(***************************************************************************)
C2_StoreMonotonicity ==
    (Routed /\ last[1].res.status = status_created)
        => ListCount(users_) = ListCount(last[1].before) + 1

\* a create answered 201 on a store that had grown before: the list goes from 3 to 4
C2_Witness ==
    /\ Routed
    /\ last[1].res.status = status_created
    /\ ListCount(last[1].before) = 3
    /\ ListCount(users_) = 4

(***************************************************************************)
(* C3  Round-trip: after a POST of an object body B answered 201 with id   *)
(* k, GET /api/users/k is answered 200 with a user object whose members    *)
(* other than id are those of B.                                           *)
(***************************************************************************)
C3_RoundTrip ==
    /\ \A n \in 1..Len(posted) :
          LET g == route_request(users_, GetById(posted[n].id.v)).res
          IN /\ g.status = status_ok
             /\ NonId(g.json) = NonId(FieldsOf(posted[n].body))
    /\ (Routed /\ IsGetById(last[1].req))
          => \A n \in 1..Len(posted) :
                SuffixOf(last[1].req.target) = to_string(posted[n].id.v)
                   => /\ last[1].res.status = status_ok
                      /\ NonId(last[1].res.json) = NonId(FieldsOf(posted[n].body))

\* GET /api/users/3 was routed after {"id":99,"name":"Bob","name":"Dave"} had been
\* created as user 3
C3_Witness ==
    /\ Routed
    /\ IsGetById(last[1].req)
    /\ Len(posted) >= 1
    /\ posted[1].body = body_dave
    /\ SuffixOf(last[1].req.target) = to_string(posted[1].id.v)
    /\ NonId(last[1].res.json) = << <<s_name, JStr(s_Dave)>> >>

(***************************************************************************)
(* C4  Echo identity: a successful create with body B stores, and returns  *)
(* under "user", B with the member id set to the server-assigned integer;  *)
(* every other member of B is kept, and an id given in B decides neither   *)
(* the key nor the stored id.                                              *)
(***************************************************************************)
C4_EchoIdentity ==
    (Routed /\ last[1].res.status = status_created)
        => LET B == FieldsOf(last[1].req.body)
               k == Len(last[1].before) + 1
               entry == users_[Len(users_)]
               stored == entry[2].v
           IN /\ Len(users_) = Len(last[1].before) + 1
              /\ entry[1] = to_string(k)
              /\ stored = UserOf(last[1].res)
              /\ ObjAt(stored, s_id) = JInt(k)
              /\ ObjKeys(stored) = ObjKeys(B) \cup {s_id}
              /\ Len(stored) = Cardinality(ObjKeys(stored))
              /\ \A key \in ObjKeys(B) \ {s_id} : ObjAt(stored, key) = ObjAt(B, key)
              /\ NonId(stored) = NonId(B)

\* a create whose body gives id 99 was answered 201
C4_Witness ==
    /\ Routed
    /\ last[1].res.status = status_created
    /\ ObjContains(FieldsOf(last[1].req.body), s_id)
    /\ ObjAt(FieldsOf(last[1].req.body), s_id) = JInt(99)

(***************************************************************************)
(* C5  Key/id invariant: for every key k of the store the stored object's  *)
(* id member is the integer whose decimal string is k.                     *)
(***************************************************************************)
C5_KeyIdInvariant ==
    \A i \in 1..Len(users_) :
        LET k == users_[i][1]
            user == users_[i][2]
        IN /\ user.type = "object"
           /\ ObjContains(user.v, s_id)
           /\ ObjAt(user.v, s_id).type = "int64"
           /\ to_string(ObjAt(user.v, s_id).v) = k
           /\ \A j \in 1..Len(users_) : users_[j][1] = k => j = i

\* the store holds the seeds and three created users, one of them from a body with an id
C5_Witness ==
    /\ Len(users_) = 5
    /\ \E n \in 1..Len(posted) : posted[n].body = body_dave

(***************************************************************************)
(* C6  A GET whose target starts with /api/users/ is answered 200, never   *)
(* 404: with the stored user object when the suffix is a key of the store, *)
(* with {"error":"User not found"} otherwise, the empty suffix included.   *)
(***************************************************************************)
C6_GetByIdAlways200 ==
    (Routed /\ IsGetById(last[1].req))
        => LET sfx == SuffixOf(last[1].req.target)
               res == last[1].res
           IN /\ res.status = status_ok
              /\ res.status # status_not_found
              /\ IF \E i \in 1..Len(last[1].before) : last[1].before[i][1] = sfx
                 THEN \E i \in 1..Len(last[1].before) :
                         /\ last[1].before[i][1] = sfx
                         /\ res.json = last[1].before[i][2].v
                         /\ res.body = serialize(last[1].before[i][2])
                 ELSE res.body = text_user_not_found

\* GET /api/users/ (empty suffix) was answered, after GET /api/users/1 had found a user
C6_Witness ==
    /\ Routed
    /\ last[1].req.method = s_GET
    /\ last[1].req.target = s_api_users_slash
    /\ last[1].res.body = text_user_not_found
    /\ <<"1">> \in DOMAIN getSeen
    /\ getSeen[<<"1">>].body # text_user_not_found

(***************************************************************************)
(* C7  A request that is none of GET /api/users, GET /api/users/..., POST  *)
(* /api/users is answered 404 {"error":"Endpoint not found"} and leaves    *)
(* the store unchanged.                                                    *)
(***************************************************************************)
C7_EndpointNotFound ==
    (Routed /\ ~IsList(last[1].req) /\ ~IsGetById(last[1].req) /\ ~IsCreate(last[1].req))
        => /\ last[1].res.status = status_not_found
           /\ last[1].res.body = text_endpoint_not_found
           /\ users_ = last[1].before

\* GET /api/usersX was answered 404 on a store that holds a created user
C7_Witness ==
    /\ Routed
    /\ last[1].req.method = s_GET
    /\ last[1].req.target = s_api_users \o <<"X">>
    /\ last[1].res.status = status_not_found
    /\ Len(users_) = 3

(***************************************************************************)
(* C8  A POST /api/users whose body is not JSON, or is JSON but not an     *)
(* object, is answered 400 with an error member, never 201, and leaves the *)
(* store as it was: the next successful create gets the id it would have   *)
(* got without the failed request.                                         *)
(***************************************************************************)
C8_BadBodyRejected ==
    (Routed /\ IsCreate(last[1].req)
            /\ (~last[1].req.body.wf \/ last[1].req.body.doc.type # "object"))
        => /\ last[1].res.status = status_bad_request
           /\ last[1].res.status # status_created
           /\ ObjContains(last[1].res.json, s_error)
           /\ ObjAt(last[1].res.json, s_error).type = "string"
           /\ users_ = last[1].before
           /\ \A b \in {body_carol, body_dave} :
                 route_request(users_, Request(s_POST, s_api_users, TRUE, b)).res
                    = route_request(last[1].before, Request(s_POST, s_api_users, TRUE, b)).res

\* the body [1], which is JSON but no object, was rejected after one create
C8_Witness ==
    /\ Routed
    /\ IsCreate(last[1].req)
    /\ last[1].req.body = body_array
    /\ last[1].res.status = status_bad_request
    /\ created = 1

(***************************************************************************)
(* C9  The store is changed only by a create: every step that changes it   *)
(* is the routing of a POST /api/users answered 201, which appends one     *)
(* entry; no step removes a key or changes a stored object.                *)
(***************************************************************************)
C9_StoreFrame ==
    [][ /\ \A i \in 1..Len(users_) : Len(users_') >= i /\ users_'[i] = users_[i]
        /\ users_' # users_
              => /\ last' # <<>>
                 /\ IsCreate(last'[1].req)
                 /\ last'[1].res.status = status_created
                 /\ last'[1].before = users_
                 /\ Len(users_') = Len(users_) + 1 ]_vars

\* a GET by id found no user on a store with one created user, and left it as it was
C9_Witness ==
    /\ Routed
    /\ IsGetById(last[1].req)
    /\ last[1].res.body = text_user_not_found
    /\ Len(last[1].before) = 3
    /\ users_ = last[1].before
    /\ ~last[1].again

(***************************************************************************)
(* C10  Idempotence of GET: a GET /api/users/{id} gets the status and the  *)
(* body that the first GET of the same id since the last successful create *)
(* got, on whatever session it is made.                                    *)
(***************************************************************************)
C10_GetIdempotent ==
    (Routed /\ last[1].again)
        => LET sfx == SuffixOf(last[1].req.target)
           IN /\ sfx \in DOMAIN getSeen
              /\ getSeen[sfx].status = last[1].res.status
              /\ getSeen[sfx].body = last[1].res.body

\* user 3 was asked for a second time since it was created
C10_Witness ==
    /\ Routed
    /\ last[1].again
    /\ SuffixOf(last[1].req.target) = <<"3">>
    /\ Len(users_) = 3
    /\ last[1].res.body # text_user_not_found

(***************************************************************************)
(* C11  Content-type invariance: every response the router hands to the    *)
(* writer, on the 200, 201, 404 and 400 branches alike, has Content-Type   *)
(* application/json and a body that is the serialization of a JSON object. *)
(***************************************************************************)
IsJsonObjectResponse(res) ==
    /\ res.status \in {status_ok, status_created, status_not_found, status_bad_request}
    /\ res.content_type = s_application_json
    /\ Len(res.body) >= 2
    /\ res.body[1] = "{"
    /\ res.body[Len(res.body)] = "}"
    /\ res.body = serialize(JObj(res.json))

C11_ContentType ==
    /\ Routed => IsJsonObjectResponse(last[1].res)
    /\ \A req \in Requests : IsJsonObjectResponse(route_request(users_, req).res)

\* the exception branch answered 400 to a body that is not JSON
C11_Witness ==
    /\ Routed
    /\ last[1].req.body = body_not_json
    /\ last[1].res.status = status_bad_request
    /\ last[1].res.content_type = s_application_json

(***************************************************************************)
(* C12  A session handles at most one request and writes at most one       *)
(* response: it starts reading once, after its handshake, starts writing   *)
(* once, after its read, and the completion of the write starts the        *)
(* half-close whatever the keep-alive flag of the request; it never reads  *)
(* again.                                                                  *)
(***************************************************************************)
C12_OneRequestPerSession ==
    [][ \A s \in Sessions :
          /\ (pc'[s] = "Reading" /\ pc[s] # "Reading") => pc[s] = "Handshaking"
          /\ (pc'[s] = "Writing" /\ pc[s] # "Writing") => pc[s] = "Reading"
          /\ pc[s] \in {"Writing", "ShuttingDown", "Closed", "Aborted"}
                => pc'[s] \notin {"None", "Handshaking", "Reading"}
          /\ pc[s] \in {"ShuttingDown", "Closed", "Aborted"} => pc'[s] # "Writing"
          /\ \A ec \in BOOLEAN : write_handler(s, ec) => pc'[s] = "ShuttingDown"
          /\ (last' # last /\ pc'[s] # pc[s]) => (pc[s] = "Reading" /\ pc'[s] = "Writing") ]_vars

\* the first session half-closes after the response to a keep-alive request
C12_Witness ==
    /\ pc[1] = "ShuttingDown"
    /\ pc[2] = "None"
    /\ Routed
    /\ last[1].req.keep_alive

(***************************************************************************)
(* C13  The session keeps itself alive across the whole chain: whenever a  *)
(* handshake, read, write or shutdown is pending on the session's stream,  *)
(* at least one pending completion handler holds a shared reference to the *)
(* session.                                                                *)
(***************************************************************************)
OperationPending(s) == pc[s] \in {"Handshaking", "Reading", "Writing", "ShuttingDown"}

C13_SelfKeptAlive ==
    \A s \in Sessions : OperationPending(s) => self_refs[s] >= 1

(***************************************************************************)
(* C14  Every step of a session is started only when the step before it    *)
(* completed without error: a handshake, read or write that completes with *)
(* an error starts no further operation, so the shutdown is started only   *)
(* after a successful write.                                               *)
(***************************************************************************)
C14_ChainedOnSuccess ==
    [][ \A s \in Sessions :
          /\ handshake_handler(s, TRUE) => ~OperationPending(s)'
          /\ \A req \in Requests : read_handler(s, TRUE, req) => ~OperationPending(s)'
          /\ write_handler(s, TRUE) => ~OperationPending(s)' ]_vars

(***************************************************************************)
(* C15  A session whose handshake or read fails goes directly to Closed:   *)
(* the router is not run for it, no response is written for it, then or    *)
(* later, and the store is not changed by it.                              *)
(***************************************************************************)
RouterUntouched == UNCHANGED <<users_, last, created, posted, getSeen>>

C15_ErrorClosesSilently ==
    [][ \A s \in Sessions :
          /\ handshake_handler(s, TRUE) => (pc'[s] = "Closed" /\ RouterUntouched)
          /\ \A req \in Requests :
                read_handler(s, TRUE, req) => (pc'[s] = "Closed" /\ RouterUntouched)
          /\ (pc[s] \in {"Handshaking", "Reading"} /\ pc'[s] = "Closed") => RouterUntouched
          /\ pc[s] = "Closed" => pc'[s] = "Closed" ]_vars

\* two sessions are closed and no request was ever routed: their handshake
\* or read failed
C15_Witness ==
    /\ pc[1] = "Closed"
    /\ pc[2] = "Closed"
    /\ ~Routed
    /\ users_ = users_init

(***************************************************************************)
(* C16  A session moves through its states only in the order Accepted,     *)
(* Handshaking, Reading, Routing, Writing, ShuttingDown, Closed: no state  *)
(* is entered twice or before its predecessor, and a response is written   *)
(* only after a request was read on a completed handshake.  (Accepted is   *)
(* passed inside the accept handler, Routing inside the read handler.)     *)
(***************************************************************************)
Rank(st) ==
    CASE st = "None" -> 0
      [] st = "Handshaking" -> 1
      [] st = "Reading" -> 2
      [] st = "Writing" -> 3
      [] st = "ShuttingDown" -> 4
      [] st = "Closed" -> 5
      [] st = "Aborted" -> 6

C16_StateOrder ==
    [][ \A s \in Sessions :
          (pc'[s] # pc[s]) =>
             /\ Rank(pc'[s]) > Rank(pc[s])
             /\ pc'[s] = "Handshaking" => pc[s] = "None"
             /\ pc'[s] = "Reading" => pc[s] = "Handshaking"
             /\ pc'[s] = "Writing" => (pc[s] = "Reading" /\ last' # <<>>)
             /\ pc'[s] = "ShuttingDown" => pc[s] = "Writing"
             /\ pc'[s] = "Closed" => pc[s] \in {"Handshaking", "Reading", "ShuttingDown"} ]_vars

\* the only session constructed so far has been through the whole chain
C16_Witness ==
    /\ pc[1] = "Closed"
    /\ pc[2] = "None"
    /\ Routed

C18_AtomicCreate ==
    /\ Len(posted) = created
    /\ \A i, j \in 1..Len(posted) : i # j => posted[i].id # posted[j].id
    /\ Len(users_) = SeedSize + created
    /\ (Routed /\ last[1].res.status = status_created) =>
          /\ ~ObjContains(last[1].before, to_string(ObjAt(UserOf(last[1].res), s_id).v))
          /\ Len(users_) = Len(last[1].before) + 1

\* two creates have been served by two sessions that are both still open
C18_Witness ==
    /\ created = 2
    /\ pc[1] = "Writing"
    /\ pc[2] = "Writing"

(***************************************************************************)
(* C19  With n users in the store its keys are the decimal strings of      *)
(* 1..n, and an object once stored is never changed: the seed users and    *)
(* the user of every create are still stored as they were inserted.        *)
(***************************************************************************)
C19_KeysAndImmutability ==
    /\ \A i \in 1..Len(users_) : users_[i][1] = to_string(i)
    /\ \A i \in 1..SeedSize : users_[i] = users_init[i]
    /\ \A i \in 1..Len(posted) :
          LET new_id == to_string(SeedSize + i)
          IN /\ posted[i].id = JInt(SeedSize + i)
             /\ ObjContains(users_, new_id)
             /\ ObjAt(users_, new_id) = JObj(set_id(FieldsOf(posted[i].body), new_id))

\* the second create carried an id of its own in its body
C19_Witness ==
    /\ created = 2
    /\ Routed
    /\ last[1].res.status = status_created
    /\ last[1].req.body = body_dave
    /\ Len(users_) = SeedSize + 2

====
